---------------------------- MODULE Spec2Model ----------------------------
(***************************************************************************)
(* MagTag dog feeding tracker: the status reconciler (DisplayManager.      *)
(* update_status and DogFeedingTracker.update_display_from_status), the    *)
(* e-ink rate gate (refresh_display), the sleep scheduler                  *)
(* (check_time_window) and the main loop of code.py.                       *)
(*                                                                         *)
(* Time is counted in whole seconds.  time.monotonic() is the variable     *)
(* clock; the wall clock (rtc.RTC().datetime) is the variable rtc, in      *)
(* seconds since local midnight.                                           *)
(***************************************************************************)
EXTENDS Integers, Sequences, FiniteSets, TLC

VARIABLES
    impl,       \* which reconciler runs: "display_manager" or "code" (code.py)
    dm,         \* the reconciler object's fields (sprites, labels, pixels,
                \* last_refresh, first_update)
    clock,      \* time.monotonic()
    panel,      \* what the e-ink panel physically shows (last painted content)
    store,      \* the snapshot reconciled last (both slots not fed at boot)
    last,       \* what the call made in this instant did (NoCall otherwise)
    window,     \* Config time windows in force (config.py or code.py)
    rtc,        \* wall clock, seconds since local midnight
    sleep,      \* outcome of the last check_time_window call
    run,        \* code.py main loop: position and loop-owned fields
    event,      \* the event source handled in this step of the main loop
    net,        \* NetworkManager: MQTT client state and what it published last
    btn,        \* ButtonManager: last_press_time and the press handled last
    probe       \* input and result of a function evaluated on its own

vars == <<impl, dm, clock, panel, store, last, window, rtc, sleep, run,
          event, net, btn, probe>>

---------------------------------------------------------------------------
(* Bounds of the model *)

MaxClock == 20          \* time.monotonic() is explored up to this value

---------------------------------------------------------------------------
(* Config *)

DISPLAY_REFRESH_MIN_INTERVAL == 10
CODE_REFRESH_MIN_INTERVAL == 10
PIXEL_COUNT == 4
MORNING_PIXEL == 3
EVENING_PIXEL == 0

\* config.py defines no TIMEZONE_OFFSET attribute: reading Config.TIMEZONE_OFFSET
\* raises AttributeError.
ConfigHasTimezoneOffset == FALSE
\* The offset _parse_time documents (EST).
TIMEZONE_OFFSET == 0 - 5

---------------------------------------------------------------------------
(* Status values of one slot, as the status API returns them:              *)
(*   false                        fmt = "false"                            *)
(*   true (fed, time unknown)     fmt = "true"                             *)
(*   "2025-08-23THH:MM:SSZ"       fmt = "iso"   (h, m, s: UTC)             *)
(*   "H:MM:SS am/pm"              fmt = "local" (h: 0..23, m, s)           *)

Status(f, hh, mm, ss) == [fmt |-> f, h |-> hh, m |-> mm, s |-> ss]

NotFed == Status("false", 0, 0, 0)
FedTrue == Status("true", 0, 0, 0)
IsoA == Status("iso", 14, 26, 25)
IsoB == Status("iso", 14, 26, 40)     \* IsoA, 15 seconds later
LocalA == Status("local", 17, 45, 50)   \* "5:45:50 pm"
LocalB == Status("local", 17, 45, 51)   \* "5:45:51 pm"

Snapshot(mo, ev) == [morning |-> mo, evening |-> ev]

\* The observations the model feeds to the reconciler.
Snapshots ==
    { Snapshot(mo, NotFed) : mo \in {NotFed, FedTrue, IsoA, IsoB, LocalA, LocalB} }
    \cup { Snapshot(NotFed, IsoA) }

\* Python truthiness of a status value ("if status:").
Truthy(status) == status.fmt # "false"

---------------------------------------------------------------------------
(* Texts.  A time text is one of                                           *)
(*   form "12h"   "H:MM AM/PM"    (hh = display hour 1..12, ap)            *)
(*   form "hhmm"  "HH:MM"         (hh = 0..23 as written in the timestamp) *)
(*   form "iso"   the whole ISO string, unchanged                          *)
(*   form "local" the whole "H:MM:SS am/pm" string, unchanged              *)
(*   form "True"  str(True)                                                *)
(*   form "none"  no text                                                  *)

Text(f, hour, mi, se, p) == [form |-> f, hh |-> hour, mm |-> mi, ss |-> se, ap |-> p]
NoText == Text("none", 0, 0, 0, "")

\* str(timestamp_str): the string itself.
Raw(ts) ==
    CASE ts.fmt = "iso" -> Text("iso", ts.h, ts.m, ts.s, "")
      [] ts.fmt = "local" -> Text("local", ts.h, ts.m, ts.s, "")
      [] ts.fmt = "true" -> Text("True", 0, 0, 0, "")
      [] OTHER -> NoText

\* The 12-hour conversion of _parse_time (lines 281-303).
Format12h(utc_hour, minute, offset) ==
    LET shifted == utc_hour + offset
        local_hour == IF shifted >= 24 THEN shifted - 24
                      ELSE IF shifted < 0 THEN shifted + 24 ELSE shifted
    IN  IF local_hour = 0 THEN Text("12h", 12, minute, 0, "AM")
        ELSE IF local_hour < 12 THEN Text("12h", local_hour, minute, 0, "AM")
        ELSE IF local_hour = 12 THEN Text("12h", 12, minute, 0, "PM")
        ELSE Text("12h", local_hour - 12, minute, 0, "PM")

\* DisplayManager._parse_time.  The ISO branch reads Config.TIMEZONE_OFFSET; when
\* Config has no such attribute the AttributeError is caught by the except
\* clause, which returns str(timestamp_str).
_parse_time(ts) ==
    IF ~Truthy(ts) \/ ts.fmt = "true" THEN NoText
    ELSE IF ts.fmt = "iso"
         THEN IF ConfigHasTimezoneOffset
              THEN Format12h(ts.h, ts.m, TIMEZONE_OFFSET)
              ELSE Raw(ts)
         ELSE Raw(ts)

\* DogFeedingTracker.parse_timestamp.  'T' in True raises TypeError, which the
\* except clause answers by returning the argument itself.
parse_timestamp(ts) ==
    IF ~Truthy(ts) THEN NoText
    ELSE IF ts.fmt = "true" THEN Raw(ts)
    ELSE IF ts.fmt = "iso" THEN Text("hhmm", ts.h, ts.m, 0, "")
    ELSE Raw(ts)

Label(k, t) == [kind |-> k, time |-> t]
NotFedLabel == Label("Not fed", NoText)

\* new_text of _update_morning / _update_evening (display_manager.py).
DmFedText(status) ==
    IF status.fmt # "true" THEN Label("Fed at", _parse_time(status))
    ELSE Label("Fed", NoText)

\* new_text of update_display_from_status (code.py).
CodeFedText(status) ==
    LET display_time == parse_timestamp(status)
    IN  IF display_time # NoText THEN Label("Fed at", display_time)
        ELSE Label("Fed", NoText)

---------------------------------------------------------------------------
(* The reconciler object *)

Pixels0 == [i \in 0..(PIXEL_COUNT - 1) |-> "OFF"]

\* A variant of the start that sets no initial pixel colours.
InitDm_PixelsOff ==
    [ morning_sprite |-> 0, morning_label |-> NotFedLabel,
      evening_sprite |-> 0, evening_label |-> NotFedLabel,
      pixels |-> Pixels0,
      last_refresh |-> 0,
      first_update |-> TRUE ]

\* DisplayManager.__init__ + setup / DogFeedingTracker.__init__ + setup_display
\* + the initial NeoPixel state set in run().
InitDm ==
    [ morning_sprite |-> 0, morning_label |-> NotFedLabel,
      evening_sprite |-> 0, evening_label |-> NotFedLabel,
      pixels |-> [Pixels0 EXCEPT ![MORNING_PIXEL] = "RED", ![EVENING_PIXEL] = "RED"],
      last_refresh |-> 0,
      first_update |-> TRUE ]

\* What a hardware refresh paints: the sprites and labels of the root group.
Content(d) ==
    [ morning_sprite |-> d.morning_sprite, morning_label |-> d.morning_label,
      evening_sprite |-> d.evening_sprite, evening_label |-> d.evening_label ]

\* The panel before the first refresh of this boot: whatever it showed before
\* (tile 2 stands for content that is none of the two bowl tiles); "at" is the
\* monotonic time of the last paint of this boot, -1 before the first.
BootPanel ==
    [ content |-> [ morning_sprite |-> 2, morning_label |-> Label("boot", NoText),
                    evening_sprite |-> 2, evening_label |-> Label("boot", NoText) ],
      at |-> 0 - 1 ]

\* Variants of the slot update used to test the change detection: one that
\* compares the sprite only, one that reports a change on every call.
UpdateSlot_SpriteOnly(sprite, lbl, status, fedText) ==
    IF Truthy(status)
    THEN [ pixel |-> "GREEN", sprite |-> 1, label |-> fedText,
           changed |-> (sprite # 1) ]
    ELSE [ pixel |-> "RED", sprite |-> 0, label |-> NotFedLabel,
           changed |-> (sprite # 0) ]

UpdateSlot_AlwaysChanged(sprite, lbl, status, fedText) ==
    IF Truthy(status)
    THEN [ pixel |-> "GREEN", sprite |-> 1, label |-> fedText, changed |-> TRUE ]
    ELSE [ pixel |-> "RED", sprite |-> 0, label |-> NotFedLabel, changed |-> TRUE ]

\* One slot's update: pixel, sprite, label; "changed" as the code computes it.
UpdateSlot(sprite, lbl, status, fedText) ==
    IF Truthy(status)
    THEN [ pixel |-> "GREEN", sprite |-> 1, label |-> fedText,
           changed |-> (sprite # 1) \/ (lbl # fedText) ]
    ELSE [ pixel |-> "RED", sprite |-> 0, label |-> NotFedLabel,
           changed |-> (sprite # 0) \/ (lbl # NotFedLabel) ]

\* A variant of _update_morning that writes the evening pixel.
_update_morning_WrongPixel(d, status, fedText) ==
    LET u == UpdateSlot(d.morning_sprite, d.morning_label, status, fedText)
    IN  [ d |-> [d EXCEPT !.pixels[EVENING_PIXEL] = u.pixel,
                          !.morning_sprite = u.sprite,
                          !.morning_label = u.label],
          changed |-> u.changed ]

_update_morning(d, status, fedText) ==
    LET u == UpdateSlot(d.morning_sprite, d.morning_label, status, fedText)
    IN  [ d |-> [d EXCEPT !.pixels[MORNING_PIXEL] = u.pixel,
                          !.morning_sprite = u.sprite,
                          !.morning_label = u.label],
          changed |-> u.changed ]

_update_evening(d, status, fedText) ==
    LET u == UpdateSlot(d.evening_sprite, d.evening_label, status, fedText)
    IN  [ d |-> [d EXCEPT !.pixels[EVENING_PIXEL] = u.pixel,
                          !.evening_sprite = u.sprite,
                          !.evening_label = u.label],
          changed |-> u.changed ]

\* Answers of board.DISPLAY.refresh(): it paints, raises RuntimeError
\* "Refresh too soon", or raises another RuntimeError.
HwAnswers == {"ok", "too soon", "error"}

\* A variant of the gate without the software interval check.
RefreshGate_NoInterval(d, now, hw, interval) ==
    IF hw = "ok"
    THEN [ d |-> [d EXCEPT !.last_refresh = now], answer |-> hw,
           hw_called |-> TRUE, performed |-> TRUE, raised |-> FALSE ]
    ELSE [ d |-> d, answer |-> hw, hw_called |-> TRUE, performed |-> FALSE,
           raised |-> (hw = "error") ]

\* A variant of the gate that stamps last_refresh on every request.
RefreshGate_StampAlways(d, now, hw, interval) ==
    IF now - d.last_refresh >= interval
    THEN IF hw = "ok"
         THEN [ d |-> [d EXCEPT !.last_refresh = now], answer |-> hw,
                hw_called |-> TRUE, performed |-> TRUE, raised |-> FALSE ]
         ELSE [ d |-> [d EXCEPT !.last_refresh = now], answer |-> hw,
                hw_called |-> TRUE, performed |-> FALSE, raised |-> (hw = "error") ]
    ELSE [ d |-> [d EXCEPT !.last_refresh = now], answer |-> "none",
           hw_called |-> FALSE, performed |-> FALSE, raised |-> FALSE ]

\* A variant of the gate that swallows every RuntimeError of the hardware.
RefreshGate_SwallowAll(d, now, hw, interval) ==
    IF now - d.last_refresh >= interval
    THEN IF hw = "ok"
         THEN [ d |-> [d EXCEPT !.last_refresh = now], answer |-> hw,
                hw_called |-> TRUE, performed |-> TRUE, raised |-> FALSE ]
         ELSE [ d |-> d, answer |-> hw, hw_called |-> TRUE, performed |-> FALSE,
                raised |-> FALSE ]
    ELSE [ d |-> d, answer |-> "none", hw_called |-> FALSE, performed |-> FALSE,
           raised |-> FALSE ]

\* refresh_display: the software interval check, then the hardware call.
\* Result: the object, whether the hardware was called, whether it painted,
\* whether an exception leaves the method.
RefreshGate(d, now, hw, interval) ==
    IF now - d.last_refresh >= interval
    THEN IF hw = "ok"
         THEN [ d |-> [d EXCEPT !.last_refresh = now], answer |-> hw,
                hw_called |-> TRUE, performed |-> TRUE, raised |-> FALSE ]
         ELSE [ d |-> d, answer |-> hw, hw_called |-> TRUE, performed |-> FALSE,
                raised |-> (hw = "error") ]
    ELSE [ d |-> d, answer |-> "none", hw_called |-> FALSE, performed |-> FALSE,
           raised |-> FALSE ]

\* DisplayManager.refresh_display
refresh_display(d, now, hw) == RefreshGate(d, now, hw, DISPLAY_REFRESH_MIN_INTERVAL)

\* DogFeedingTracker.refresh_display
code_refresh_display(d, now, hw) == RefreshGate(d, now, hw, CODE_REFRESH_MIN_INTERVAL)

\* A variant of the decision that ends the first update only when the panel
\* was painted.
Decide_FirstUntilPainted(d, display_changed, force_refresh, r) ==
    IF d.first_update
    THEN [ d |-> IF r.performed THEN [r.d EXCEPT !.first_update = FALSE] ELSE r.d,
           requested |-> TRUE, hw_called |-> r.hw_called,
           performed |-> r.performed, raised |-> r.raised,
           answer |-> r.answer, changed |-> display_changed ]
    ELSE IF display_changed \/ force_refresh
    THEN [ d |-> r.d, requested |-> TRUE, hw_called |-> r.hw_called,
           performed |-> r.performed, raised |-> r.raised,
           answer |-> r.answer, changed |-> display_changed ]
    ELSE [ d |-> d, requested |-> FALSE, hw_called |-> FALSE,
           performed |-> FALSE, raised |-> FALSE, answer |-> "none",
           changed |-> display_changed ]

\* A variant of the decision that does not look at force_refresh.
Decide_IgnoreForce(d, display_changed, force_refresh, r) ==
    IF d.first_update
    THEN [ d |-> IF r.raised THEN r.d ELSE [r.d EXCEPT !.first_update = FALSE],
           requested |-> TRUE, hw_called |-> r.hw_called,
           performed |-> r.performed, raised |-> r.raised,
           answer |-> r.answer, changed |-> display_changed ]
    ELSE IF display_changed
    THEN [ d |-> r.d, requested |-> TRUE, hw_called |-> r.hw_called,
           performed |-> r.performed, raised |-> r.raised,
           answer |-> r.answer, changed |-> display_changed ]
    ELSE [ d |-> d, requested |-> FALSE, hw_called |-> FALSE,
           performed |-> FALSE, raised |-> FALSE, answer |-> "none",
           changed |-> display_changed ]

\* The refresh decision shared by both reconcilers (display_manager.py 185-196,
\* code.py 350-358).  r is the result of the refresh request, were it made.
Decide(d, display_changed, force_refresh, r) ==
    IF d.first_update
    THEN [ d |-> IF r.raised THEN r.d ELSE [r.d EXCEPT !.first_update = FALSE],
           requested |-> TRUE, hw_called |-> r.hw_called,
           performed |-> r.performed, raised |-> r.raised,
           answer |-> r.answer, changed |-> display_changed ]
    ELSE IF display_changed \/ force_refresh
    THEN [ d |-> r.d, requested |-> TRUE, hw_called |-> r.hw_called,
           performed |-> r.performed, raised |-> r.raised,
           answer |-> r.answer, changed |-> display_changed ]
    ELSE [ d |-> d, requested |-> FALSE, hw_called |-> FALSE,
           performed |-> FALSE, raised |-> FALSE, answer |-> "none",
           changed |-> display_changed ]

\* DisplayManager.update_status
update_status(d, obs, force_refresh, now, hw) ==
    LET mo == _update_morning(d, obs.morning, DmFedText(obs.morning))
        ev == _update_evening(mo.d, obs.evening, DmFedText(obs.evening))
        display_changed == mo.changed \/ ev.changed
    IN  Decide(ev.d, display_changed, force_refresh, refresh_display(ev.d, now, hw))

\* DogFeedingTracker.update_display_from_status
update_display_from_status(d, obs, force_refresh, now, hw) ==
    LET mo == _update_morning(d, obs.morning, CodeFedText(obs.morning))
        ev == _update_evening(mo.d, obs.evening, CodeFedText(obs.evening))
        display_changed == mo.changed \/ ev.changed
    IN  Decide(ev.d, display_changed, force_refresh, code_refresh_display(ev.d, now, hw))

\* The reconciler of the running implementation.
Reconcile(i, d, obs, force_refresh, now, hw) ==
    IF i = "display_manager" THEN update_status(d, obs, force_refresh, now, hw)
    ELSE update_display_from_status(d, obs, force_refresh, now, hw)

---------------------------------------------------------------------------
(* Sleep scheduler: DogFeedingTracker.check_time_window *)

\* Largest number of main-loop iterations followed in one boot.
MaxIterations == 4

\* Time windows (24-hour format) of config.py and of code.py's own Config.
ConfigWindows == [MORNING_START |-> 7, MORNING_END |-> 11,
                  EVENING_START |-> 16, EVENING_END |-> 21]

CodeWindows == [MORNING_START |-> 7, MORNING_END |-> 11,
                EVENING_START |-> 16, EVENING_END |-> 23]

\* Windows the scheduler is evaluated with: the two configurations above and
\* variants with an earlier morning start and with no gap between the windows.
WindowSets ==
    { [MORNING_START |-> ms, MORNING_END |-> me,
       EVENING_START |-> 16, EVENING_END |-> ee] :
          ms \in {6, 7}, me \in {11, 16}, ee \in {21, 23} }

\* Only sleep if more than 1 minute.
MIN_SLEEP_SECONDS == 60

SecondsPerHour == 60 * 60
SecondsPerDay == 24 * SecondsPerHour

\* A time of day of the real-time clock, in seconds since midnight.
TimeOfDay(hh, mm, ss) == hh * SecondsPerHour + mm * 60 + ss

\* Times of day the scheduler is evaluated at: every hour, on the hour, at
\* half past and around one minute before the next hour.
SampleTimes ==
    { TimeOfDay(hh, mm, ss) : hh \in 0..23, mm \in {0, 30, 58, 59}, ss \in {0, 1, 59} }

\* A variant of the scheduler that sleeps whatever the computed duration is.
check_time_window_NoThreshold(w, now) ==
    LET hour == now \div SecondsPerHour
        t == IF hour < w.MORNING_START
             THEN [ s |-> TimeOfDay(w.MORNING_START, 0, 0) - now,
                    reason |-> "before morning window" ]
             ELSE IF w.MORNING_END <= hour /\ hour < w.EVENING_START
             THEN [ s |-> TimeOfDay(w.EVENING_START, 0, 0) - now,
                    reason |-> "between feeding windows" ]
             ELSE IF hour >= w.EVENING_END
             THEN [ s |-> SecondsPerDay + TimeOfDay(w.MORNING_START, 0, 0) - now,
                    reason |-> "after evening window" ]
             ELSE [ s |-> 0, reason |-> "" ]
    IN  [ called |-> TRUE, now |-> now, seconds_to_sleep |-> t.s,
          sleep_reason |-> t.reason, deep_sleep |-> t.s > 0 ]

\* A variant of the scheduler whose target after the evening window is the
\* evening start of the next day.
check_time_window_NextEvening(w, now) ==
    LET hour == now \div SecondsPerHour
        t == IF hour < w.MORNING_START
             THEN [ s |-> TimeOfDay(w.MORNING_START, 0, 0) - now,
                    reason |-> "before morning window" ]
             ELSE IF w.MORNING_END <= hour /\ hour < w.EVENING_START
             THEN [ s |-> TimeOfDay(w.EVENING_START, 0, 0) - now,
                    reason |-> "between feeding windows" ]
             ELSE IF hour >= w.EVENING_END
             THEN [ s |-> SecondsPerDay + TimeOfDay(w.EVENING_START, 0, 0) - now,
                    reason |-> "after evening window" ]
             ELSE [ s |-> 0, reason |-> "" ]
    IN  [ called |-> TRUE, now |-> now, seconds_to_sleep |-> t.s,
          sleep_reason |-> t.reason, deep_sleep |-> t.s > MIN_SLEEP_SECONDS ]

\* A variant of the scheduler whose target after the evening window is the
\* morning start of the same day.
check_time_window_SameDay(w, now) ==
    LET hour == now \div SecondsPerHour
        t == IF hour < w.MORNING_START
             THEN [ s |-> TimeOfDay(w.MORNING_START, 0, 0) - now,
                    reason |-> "before morning window" ]
             ELSE IF w.MORNING_END <= hour /\ hour < w.EVENING_START
             THEN [ s |-> TimeOfDay(w.EVENING_START, 0, 0) - now,
                    reason |-> "between feeding windows" ]
             ELSE IF hour >= w.EVENING_END
             THEN [ s |-> TimeOfDay(w.MORNING_START, 0, 0) - now,
                    reason |-> "after evening window" ]
             ELSE [ s |-> 0, reason |-> "" ]
    IN  [ called |-> TRUE, now |-> now, seconds_to_sleep |-> t.s,
          sleep_reason |-> t.reason, deep_sleep |-> t.s > MIN_SLEEP_SECONDS ]

\* check_time_window at real-time-clock time now with windows w: the seconds
\* to the target, the reason, and whether the device enters deep sleep.
check_time_window(w, now) ==
    LET hour == now \div SecondsPerHour
        t == IF hour < w.MORNING_START
             THEN [ s |-> TimeOfDay(w.MORNING_START, 0, 0) - now,
                    reason |-> "before morning window" ]
             ELSE IF w.MORNING_END <= hour /\ hour < w.EVENING_START
             THEN [ s |-> TimeOfDay(w.EVENING_START, 0, 0) - now,
                    reason |-> "between feeding windows" ]
             ELSE IF hour >= w.EVENING_END
             THEN [ s |-> SecondsPerDay + TimeOfDay(w.MORNING_START, 0, 0) - now,
                    reason |-> "after evening window" ]
             ELSE [ s |-> 0, reason |-> "" ]
    IN  [ called |-> TRUE, now |-> now, seconds_to_sleep |-> t.s,
          sleep_reason |-> t.reason, deep_sleep |-> t.s > MIN_SLEEP_SECONDS ]

\* The scheduler before its first evaluation of this boot.
NotChecked ==
    [ called |-> FALSE, now |-> 0, seconds_to_sleep |-> 0, sleep_reason |-> "",
      deep_sleep |-> FALSE ]

\* The windows of the running implementation.
WindowsOf(i) == IF i = "code" THEN CodeWindows ELSE ConfigWindows

\* Refresh intervals and retry settings of code.py's Config.
TIME_SYNC_INTERVAL == 3600
STATUS_FETCH_INTERVAL == 300
CONNECTION_FAILURE_THRESHOLD == 5

\* The call of check_time_window at the top of the main loop is commented
\* out ("Temporarily disabled for testing").
CheckTimeWindowInLoop == FALSE

\* The main program before run() is entered: the timing and connection
\* fields as __init__ sets them; "iterations" counts the loop iterations
\* followed so far, "wake_alarm" is alarm.wake_alarm (the start is a wake from
\* deep sleep) and "refreshes" counts the display refreshes requested since
\* the start, up to 2.
NotRunning ==
    [ pc |-> "off", last_sync |-> 0, last_status_fetch |-> 0,
      connection_failures |-> 0, mqtt_connected |-> FALSE, iterations |-> 0,
      wake_alarm |-> FALSE, refreshes |-> 0 ]

---------------------------------------------------------------------------
(* Slot equality of the specification (section 3): the fed flags match and, *)
(* when fed, the displayed time texts match.                                *)

DisplayedTime(i, status) ==
    IF i = "display_manager" THEN _parse_time(status) ELSE parse_timestamp(status)

SlotEqual(i, a, b) ==
    /\ Truthy(a) = Truthy(b)
    /\ Truthy(a) => DisplayedTime(i, a) = DisplayedTime(i, b)

SnapshotEqual(i, a, b) ==
    SlotEqual(i, a.morning, b.morning) /\ SlotEqual(i, a.evening, b.evening)

\* Two timestamps of the same format, hour and minute that differ in seconds.
SecondsApart(a, b) ==
    /\ a.fmt = b.fmt /\ a.fmt \in {"iso", "local"}
    /\ a.h = b.h /\ a.m = b.m /\ a.s # b.s

\* Two snapshots that differ, and only in the seconds of their timestamps.
DifferOnlyInSeconds(a, b) ==
    /\ a # b
    /\ a.morning = b.morning \/ SecondsApart(a.morning, b.morning)
    /\ a.evening = b.evening \/ SecondsApart(a.evening, b.evening)

---------------------------------------------------------------------------
(* The reconciler and the rate gate as a state machine *)

\* What the call made in this instant did: the operation, its force_refresh
\* argument, first_update and "same snapshot as stored" as they were when it
\* was called, display_changed, what became of the refresh request, and
\* what board.DISPLAY.refresh() answered when it was called.
NoCall ==
    [ op |-> "none", force |-> FALSE, first |-> FALSE, same |-> FALSE,
      changed |-> FALSE, requested |-> FALSE, hw_called |-> FALSE,
      performed |-> FALSE, raised |-> FALSE, answer |-> "none" ]

DefaultSnapshot == Snapshot(NotFed, NotFed)

\* The panel after a refresh request with result r at time now.
Painted(p, r, now) ==
    IF r.performed THEN [content |-> Content(r.d), at |-> now] ELSE p

\* The record of a reconcile of obs with result r.
CallRecord(obs, force_refresh, r) ==
    [ op |-> "reconcile", force |-> force_refresh, first |-> dm.first_update,
      same |-> (obs = store), changed |-> r.changed,
      requested |-> r.requested, hw_called |-> r.hw_called,
      performed |-> r.performed, raised |-> r.raised, answer |-> r.answer ]

\* The hardware's answers to draw for a call at time now: its answer is drawn
\* only when the request can reach it (within the interval the call ends before
\* board.DISPLAY.refresh(), whatever the hardware would have said).
HwChoices(d, now) ==
    IF now - d.last_refresh >= DISPLAY_REFRESH_MIN_INTERVAL THEN HwAnswers ELSE {"ok"}

\* No event source has fired in this step.
NoEvent ==
    [ kind |-> "none", topic |-> "", payload |-> "", fetched |-> FALSE, got |-> FALSE ]

\* Nothing was published in this step.
NoMessage == [topic |-> "", text |-> NoText]

\* NetworkManager.__init__, then setup_mqtt; "published" is the message the
\* MQTT client was given in this step.
InitNet ==
    [ mqtt_client |-> TRUE, mqtt_connected |-> FALSE, connection_failures |-> 0,
      published |-> NoMessage ]

\* No press was handled in this step.
NoPress ==
    [ handled |-> FALSE, index |-> 0, pin |-> "", success |-> FALSE,
      outcome |-> "none", level |-> "up" ]

\* ButtonManager.__init__: last_press_time = [0] * 4; "next" is the index the
\* loop of check_buttons looks at next, "press" the press handled in this step.
\* "down" tells for each button whether it was held low when check_buttons
\* last left it, "held_handled" whether that press has been handled already.
InitBtn ==
    [ last_press_time |-> [i \in 0..3 |-> 0], next |-> 0, press |-> NoPress,
      down |-> [i \in 0..3 |-> FALSE], held_handled |-> [i \in 0..3 |-> FALSE] ]

\* No function has been evaluated.
NoProbe == [op |-> "none"]

\* The variables outside the main program of code.py.
Apart == <<net, btn, probe>>

Others == <<window, rtc, sleep, run, event, Apart>>

Init ==
    /\ impl \in {"display_manager", "code"}
    /\ dm = InitDm
    /\ clock = 0
    /\ panel = BootPanel
    /\ store = DefaultSnapshot
    /\ last = NoCall
    /\ window = WindowsOf(impl)
    /\ rtc = 0
    /\ sleep = NotChecked
    /\ run = NotRunning
    /\ event = NoEvent
    /\ net = InitNet
    /\ btn = InitBtn
    /\ probe = NoProbe

\* One second passes.
Tick ==
    /\ clock < MaxClock
    /\ clock' = clock + 1
    /\ last' = NoCall
    /\ UNCHANGED <<impl, dm, panel, store, Others>>

\* A caller reconciles an observation: DisplayManager.update_status or
\* DogFeedingTracker.update_display_from_status.
UpdateStatus ==
    \E obs \in Snapshots, force_refresh \in BOOLEAN, hw \in HwChoices(dm, clock) :
      \E r \in {Reconcile(impl, dm, obs, force_refresh, clock, hw)} :
          /\ dm' = r.d
          /\ panel' = Painted(panel, r, clock)
          /\ store' = obs
          /\ last' = CallRecord(obs, force_refresh, r)
          /\ UNCHANGED <<impl, clock, Others>>

\* A caller requests a refresh directly (refresh_display is public).
RefreshDisplay ==
    \E hw \in HwChoices(dm, clock) :
      \E r \in { IF impl = "display_manager" THEN refresh_display(dm, clock, hw)
                 ELSE code_refresh_display(dm, clock, hw) } :
          /\ dm' = r.d
          /\ panel' = Painted(panel, r, clock)
          /\ last' = [NoCall EXCEPT !.op = "refresh", !.requested = TRUE,
                                     !.hw_called = r.hw_called,
                                     !.performed = r.performed,
                                     !.raised = r.raised,
                                     !.answer = r.answer]
          /\ UNCHANGED <<impl, clock, store, Others>>

Next == Tick \/ UpdateStatus \/ RefreshDisplay

Spec == Init /\ [][Next]_vars

---------------------------------------------------------------------------
(* The sleep scheduler on its own: check_time_window evaluated at sampled   *)
(* times of day under sampled windows.                                      *)

Display == <<impl, dm, clock, panel, store, last>>

\* time.monotonic() when the scheduler is consulted.
SleepClocks == {0, 40}

\* A variant of the cleanup that leaves the pixels as they are.
before_sleep_KeepsPixels(d, mqtt_connected, disconnect_ok) ==
    [ d |-> d,
      mqtt_connected |-> IF mqtt_connected /\ disconnect_ok THEN FALSE ELSE mqtt_connected,
      steps |-> IF mqtt_connected THEN <<"mqtt disconnect">> ELSE <<>> ]

\* DogFeedingTracker.before_sleep: fill the pixels with PIXEL_OFF, then
\* "if self.mqtt_client and self.mqtt_connected: self.mqtt_client.disconnect()"
\* with any exception swallowed; steps lists what was done, in order.  A
\* disconnect that went through has on_mqtt_disconnect clear mqtt_connected.
before_sleep(d, mqtt_connected, disconnect_ok) ==
    [ d |-> [d EXCEPT !.pixels = [i \in DOMAIN d.pixels |-> "OFF"]],
      mqtt_connected |-> IF mqtt_connected /\ disconnect_ok THEN FALSE ELSE mqtt_connected,
      steps |-> <<"pixels off">> \o
                (IF mqtt_connected THEN <<"mqtt disconnect">> ELSE <<>>) ]

InitSleep ==
    /\ impl = "code"
    /\ dm = InitDm
    /\ clock \in SleepClocks
    /\ panel = BootPanel
    /\ store = DefaultSnapshot
    /\ last = NoCall
    /\ window \in WindowSets
    /\ rtc \in SampleTimes
    /\ sleep = NotChecked
    /\ run \in { [NotRunning EXCEPT !.mqtt_connected = c] : c \in BOOLEAN }
    /\ event = NoEvent
    /\ net = InitNet
    /\ btn = InitBtn
    /\ probe = NoProbe

\* check_time_window is called while the device is awake; when it decides to
\* sleep it runs before_sleep, creates the time alarm and enters deep sleep.
CheckTimeWindow ==
    /\ ~sleep.deep_sleep
    /\ \E disconnect_ok \in BOOLEAN :
         \E s \in {check_time_window(window, rtc)} :
           /\ sleep' = s
           /\ IF s.deep_sleep
              THEN \E b \in {before_sleep(dm, run.mqtt_connected, disconnect_ok)} :
                     /\ dm' = b.d
                     /\ run' = [run EXCEPT !.mqtt_connected = b.mqtt_connected]
                     /\ probe' = [ op |-> "sleep",
                                   steps |-> b.steps \o <<"time alarm", "deep sleep">>,
                                   alarm |-> clock + s.seconds_to_sleep ]
              ELSE UNCHANGED <<dm, run, probe>>
    /\ UNCHANGED <<impl, clock, panel, store, last, window, rtc, event, net, btn>>

\* The time alarm fires seconds_to_sleep after deep sleep was entered and
\* the program starts again from main(): a new DogFeedingTracker, display set
\* up, pixels red, MQTT connected or not.  The e-ink panel keeps its image.
WakeAlarm ==
    /\ sleep.deep_sleep
    /\ rtc' = (sleep.now + sleep.seconds_to_sleep) % SecondsPerDay
    /\ sleep' = NotChecked
    /\ dm' = InitDm
    /\ store' = DefaultSnapshot
    /\ last' = NoCall
    /\ panel' = [panel EXCEPT !.at = 0 - 1]
    /\ \E c \in BOOLEAN :
         run' = [NotRunning EXCEPT !.mqtt_connected = c, !.wake_alarm = TRUE]
    /\ probe' = NoProbe
    /\ UNCHANGED <<impl, clock, window, event, net, btn>>

\* While awake the device reconciles a fetched status (morning fed), forced.
ReconcileAwake ==
    /\ ~sleep.deep_sleep
    /\ last.op = "none"
    /\ \E r \in {update_display_from_status(dm, Snapshot(IsoA, NotFed), TRUE, clock, "ok")} :
         /\ dm' = r.d
         /\ panel' = Painted(panel, r, clock)
         /\ store' = Snapshot(IsoA, NotFed)
         /\ last' = CallRecord(Snapshot(IsoA, NotFed), TRUE, r)
    /\ UNCHANGED <<impl, clock, window, rtc, sleep, run, event, net, btn, probe>>

NextSleep == CheckTimeWindow \/ WakeAlarm \/ ReconcileAwake

SpecSleep == InitSleep /\ [][NextSleep]_vars

---------------------------------------------------------------------------
(* The timestamp functions on their own: _parse_time and parse_timestamp    *)
(* evaluated on sampled status values.                                      *)

\* ISO-8601 UTC timestamps of every hour, and local-format times.
SampleTimestamps ==
    { Status(f, hh, mm, ss) :
        f \in {"iso", "local"}, hh \in 0..23, mm \in {0, 5, 26, 59}, ss \in {0, 25} }

\* The variables the functions evaluated on their own leave alone.
Program == <<Display, window, rtc, sleep, run, event, net, btn>>

InitParse ==
    /\ impl = "display_manager"
    /\ dm = InitDm
    /\ clock = 0
    /\ panel = BootPanel
    /\ store = DefaultSnapshot
    /\ last = NoCall
    /\ window = ConfigWindows
    /\ rtc = 0
    /\ sleep = NotChecked
    /\ run = NotRunning
    /\ event = NoEvent
    /\ net = InitNet
    /\ btn = InitBtn
    /\ probe = NoProbe

\* A fed slot's timestamp is turned into the time shown on its label.
ParseTime ==
    /\ \E ts \in SampleTimestamps :
         probe' = [ op |-> "parse", ts |-> ts,
                    shown |-> _parse_time(ts), code_shown |-> parse_timestamp(ts) ]
    /\ UNCHANGED Program

NextParse == ParseTime

SpecParse == InitParse /\ [][NextParse]_vars

---------------------------------------------------------------------------
(* fetch_dog_feed_status (network_manager.py and code.py, the same loop):   *)
(* the HTTP attempts it makes and the delays it sleeps between them.        *)

MAX_RETRIES == 3
RETRY_DELAY == 2

\* What one HTTP attempt can bring: status code 200 with a JSON body, status
\* code 200 with a body that response.json() or .get() rejects, another status
\* code, or an exception of requests.get.
Responses == {"200", "200 bad body", "non200", "exception"}

\* The WiFi link as ensure_wifi_connected finds it, whether the requests
\* session exists, and the answer each attempt would get.
FetchInputs ==
    [ wifi : {"up", "down", "back"}, requests : BOOLEAN,
      answers : [1..MAX_RETRIES -> Responses] ]

\* The loop "for attempt in range(Config.MAX_RETRIES)" from index attempt on;
\* gaps lists the seconds slept before each further attempt.
RECURSIVE FetchLoop(_, _, _, _)
FetchLoop(attempt, in, requests_made, gaps) ==
    IF attempt >= MAX_RETRIES
    THEN [ result |-> "None", attempts |-> requests_made, gaps |-> gaps,
           exhausted |-> TRUE, raised |-> FALSE ]
    ELSE IF ~in.requests
    THEN [ result |-> "None", attempts |-> requests_made, gaps |-> gaps,
           exhausted |-> FALSE, raised |-> FALSE ]
    ELSE IF in.answers[attempt + 1] = "200"
    THEN [ result |-> "status", attempts |-> requests_made + 1, gaps |-> gaps,
           exhausted |-> FALSE, raised |-> FALSE ]
    ELSE IF in.answers[attempt + 1] = "non200"
    THEN FetchLoop(attempt + 1, in, requests_made + 1,
                   IF attempt < MAX_RETRIES - 1 THEN Append(gaps, 0) ELSE gaps)
    ELSE FetchLoop(attempt + 1, in, requests_made + 1,
                   IF attempt < MAX_RETRIES - 1 THEN Append(gaps, RETRY_DELAY) ELSE gaps)

\* fetch_dog_feed_status: "if not self.ensure_wifi_connected(): return None",
\* then the loop.
fetch_dog_feed_status(in) ==
    IF in.wifi = "down"
    THEN [ result |-> "None", attempts |-> 0, gaps |-> <<>>,
           exhausted |-> FALSE, raised |-> FALSE ]
    ELSE FetchLoop(0, in, 0, <<>>)

InitFetch ==
    /\ impl = "display_manager"
    /\ dm = InitDm
    /\ clock = 0
    /\ panel = BootPanel
    /\ store = DefaultSnapshot
    /\ last = NoCall
    /\ window = ConfigWindows
    /\ rtc = 0
    /\ sleep = NotChecked
    /\ run = NotRunning
    /\ event = NoEvent
    /\ net = InitNet
    /\ btn = InitBtn
    /\ probe = NoProbe

\* One call of fetch_dog_feed_status.
FetchStatus ==
    /\ \E in \in FetchInputs :
         probe' = [ op |-> "fetch", in |-> in, out |-> fetch_dog_feed_status(in) ]
    /\ UNCHANGED Program

NextFetch == FetchStatus

SpecFetch == InitFetch /\ [][NextFetch]_vars

---------------------------------------------------------------------------
(* The buttons: ButtonManager.check_buttons, one action per button of its   *)
(* loop, publishing through NetworkManager.publish_feeding_status.          *)

\* time.monotonic() is followed up to this value while buttons are scanned.
MaxPressClock == 2

\* Button pins on MagTag, left to right.
BUTTON_PINS == <<"D15", "D14", "D12", "D11">>

\* DEBOUNCE_DELAY = 0.2 s, in tenths of a second.
DEBOUNCE_DELAY_TENTHS == 2

\* MQTT topics of config.py.
NM_MORNING_TOPIC == "dog/fed/morning"
NM_EVENING_TOPIC == "dog/fed/evening"

\* Config.MQTT_NOT_FED_PAYLOAD: the configured payload for clearing, the empty
\* string by default.
MQTT_NOT_FED_PAYLOAD == Text("not fed payload", 0, 0, 0, "")

\* Times of day at which the buttons are scanned.
PressTimes ==
    { TimeOfDay(0, 5, 9), TimeOfDay(9, 26, 0), TimeOfDay(12, 0, 30),
      TimeOfDay(17, 45, 50), TimeOfDay(23, 59, 58) }

\* NetworkManager._get_current_timestamp: "H:MM:SS am/pm" of the RTC time t.
_get_current_timestamp(t) ==
    LET hour == t \div SecondsPerHour
        minute == (t % SecondsPerHour) \div 60
        second == t % 60
    IN  IF hour = 0 THEN Text("H:MM:SS am/pm", 12, minute, second, "am")
        ELSE IF hour < 12 THEN Text("H:MM:SS am/pm", hour, minute, second, "am")
        ELSE IF hour = 12 THEN Text("H:MM:SS am/pm", 12, minute, second, "pm")
        ELSE Text("H:MM:SS am/pm", hour - 12, minute, second, "pm")

\* A variant of the publish that answers True whenever the client exists.
publish_feeding_status_AlwaysTrue(n, topic, fed, t, connect_ok, publish_ok) ==
    IF ~n.mqtt_client
    THEN [ n |-> [n EXCEPT !.published = NoMessage], success |-> FALSE,
           outcome |-> "no client" ]
    ELSE [ n |-> [n EXCEPT !.published = NoMessage, !.mqtt_connected = TRUE],
           success |-> TRUE, outcome |-> "published" ]

\* NetworkManager.publish_feeding_status(topic, fed) at RTC time t; connect_ok
\* and publish_ok are the answers of the MQTT client's connect and publish.
\* Every path ends in "return True" or "return False"; outcome names the path.
publish_feeding_status(n, topic, fed, t, connect_ok, publish_ok) ==
    IF ~n.mqtt_client
    THEN [ n |-> [n EXCEPT !.published = NoMessage], success |-> FALSE,
           outcome |-> "no client" ]
    ELSE IF ~n.mqtt_connected /\ ~connect_ok
    THEN [ n |-> [n EXCEPT !.published = NoMessage, !.mqtt_connected = FALSE],
           success |-> FALSE, outcome |-> "reconnect failed" ]
    ELSE IF publish_ok
    THEN [ n |-> [n EXCEPT !.mqtt_connected = TRUE,
                           !.published =
                               [ topic |-> topic,
                                 text |-> IF fed THEN _get_current_timestamp(t)
                                          ELSE MQTT_NOT_FED_PAYLOAD ]],
           success |-> TRUE, outcome |-> "published" ]
    ELSE [ n |-> [n EXCEPT !.published = NoMessage, !.mqtt_connected = FALSE],
           success |-> FALSE, outcome |-> "publish raised" ]

\* A variant of the dispatch with the two middle buttons exchanged.
_handle_button_press_Swapped(button_index) ==
    CASE button_index = 0 -> [topic |-> NM_MORNING_TOPIC, fed |-> TRUE]
      [] button_index = 2 -> [topic |-> NM_MORNING_TOPIC, fed |-> FALSE]
      [] button_index = 1 -> [topic |-> NM_EVENING_TOPIC, fed |-> TRUE]
      [] OTHER -> [topic |-> NM_EVENING_TOPIC, fed |-> FALSE]

\* ButtonManager._handle_button_press: the publish each button index makes
\* (_set_morning_fed, _clear_morning_fed, _set_evening_fed, _clear_evening_fed).
_handle_button_press(button_index) ==
    CASE button_index = 0 -> [topic |-> NM_MORNING_TOPIC, fed |-> TRUE]
      [] button_index = 1 -> [topic |-> NM_MORNING_TOPIC, fed |-> FALSE]
      [] button_index = 2 -> [topic |-> NM_EVENING_TOPIC, fed |-> TRUE]
      [] OTHER -> [topic |-> NM_EVENING_TOPIC, fed |-> FALSE]

\* The pixel a button flashes: "if button_index in (BUTTON_MORNING_FED,
\* BUTTON_MORNING_CLEAR): pixel_index = Config.MORNING_PIXEL else EVENING_PIXEL".
FlashPixel(button_index) ==
    IF button_index \in {0, 1} THEN MORNING_PIXEL ELSE EVENING_PIXEL

\* ButtonManager._flash_feedback: the pixels after storing the colour,
\* showing white and writing the stored colour back.
_flash_feedback(pixels, button_index) ==
    LET pixel_index == FlashPixel(button_index)
        original_color == pixels[pixel_index]
        white == [pixels EXCEPT ![pixel_index] = "WHITE"]
    IN  [white EXCEPT ![pixel_index] = original_color]

\* A variant of the error flash that ends with the pixels off.
_error_flash_NoRestore(pixels) ==
    [i \in DOMAIN pixels |-> "OFF"]

\* ButtonManager._error_flash: the pixels after storing all colours, filling
\* red and off three times, and writing the stored colours back.
_error_flash(pixels) ==
    LET original_colors == pixels
        red == [i \in DOMAIN pixels |-> "RED"]
        off == [i \in DOMAIN red |-> "OFF"]
    IN  [i \in DOMAIN off |-> original_colors[i]]

\* The colours the reconciler may have left on the two slot pixels.
PixelStates ==
    { [Pixels0 EXCEPT ![MORNING_PIXEL] = m,
                      ![EVENING_PIXEL] = IF m = "RED" THEN "GREEN" ELSE "RED"] :
        m \in {"RED", "GREEN"} }

\* What the pin of a button reads when check_buttons looks at it: high
\* ("up"), low by a press that began since the last look ("new"), or low by
\* the press that already held it low at the last look ("held").
Levels(was_down) == IF was_down THEN {"up", "new", "held"} ELSE {"up", "new"}

\* A variant of the handling that goes on without waiting for the release.
WaitForRelease_NoWait(b, i) ==
    [b EXCEPT !.down[i] = TRUE, !.held_handled[i] = TRUE]

\* "while not button.value: time.sleep(0.01)": the button is up when the
\* loop of check_buttons goes on.
WaitForRelease(b, i) ==
    [b EXCEPT !.down[i] = FALSE, !.held_handled[i] = FALSE]

\* A button that was looked at and not handled: it stays as it reads.
NotHandled(b, i, level) ==
    [b EXCEPT !.down[i] = (level # "up"),
              !.held_handled[i] = (level = "held" /\ b.held_handled[i])]

\* "if current_time - self.last_press_time[i] > self.DEBOUNCE_DELAY"
Debounced(now, last_press) == (now - last_press) * 10 > DEBOUNCE_DELAY_TENTHS

InitButtons ==
    /\ impl = "display_manager"
    /\ dm \in { [InitDm EXCEPT !.pixels = px] : px \in PixelStates }
    /\ clock = 0
    /\ panel = BootPanel
    /\ store = DefaultSnapshot
    /\ last = NoCall
    /\ window = ConfigWindows
    /\ rtc \in PressTimes
    /\ sleep = NotChecked
    /\ run = NotRunning
    /\ event = NoEvent
    /\ net \in { [InitNet EXCEPT !.mqtt_client = c] : c \in BOOLEAN }
    /\ btn = InitBtn
    /\ probe = NoProbe

\* One round of the loop of check_buttons: the button at index btn.next is
\* read; a press that passes the debounce check is handled (feedback flash,
\* which restores the pixel, then the publish, then the error flash, which
\* restores the pixels, if the publish failed).
ScanButton ==
    /\ \E level \in Levels(btn.down[btn.next]),
          connect_ok \in BOOLEAN, publish_ok \in BOOLEAN :
         LET i == btn.next
             pressed == level # "up"
             a == _handle_button_press(i)
             p == publish_feeding_status(net, a.topic, a.fed, rtc, connect_ok, publish_ok)
             flashed == _flash_feedback(dm.pixels, i)
         IN  IF pressed /\ Debounced(clock, btn.last_press_time[i])
             THEN /\ dm' = [dm EXCEPT !.pixels = IF p.success THEN flashed
                                                 ELSE _error_flash(flashed)]
                  /\ btn' = [ WaitForRelease(btn, i) EXCEPT
                                !.last_press_time[i] = clock,
                                !.next = (i + 1) % 4,
                                !.press = [ handled |-> TRUE, index |-> i,
                                            pin |-> BUTTON_PINS[i + 1],
                                            success |-> p.success,
                                            outcome |-> p.outcome,
                                            level |-> level ] ]
                  /\ net' = p.n
             ELSE /\ btn' = [NotHandled(btn, i, level) EXCEPT
                                !.next = (i + 1) % 4, !.press = NoPress]
                  /\ net' = [net EXCEPT !.published = NoMessage]
                  /\ dm' = dm
    /\ UNCHANGED <<impl, clock, panel, store, last, window, rtc, sleep, run, event, probe>>

\* One second passes between two calls of check_buttons.
TickButtons ==
    /\ btn.next = 0
    /\ clock < MaxPressClock
    /\ clock' = clock + 1
    /\ rtc' = (rtc + 1) % SecondsPerDay
    /\ btn' = [btn EXCEPT !.press = NoPress]
    /\ net' = [net EXCEPT !.published = NoMessage]
    /\ UNCHANGED <<impl, dm, panel, store, last, window, sleep, run, event, probe>>

NextButtons == ScanButton \/ TickButtons

SpecButtons == InitButtons /\ [][NextButtons]_vars

---------------------------------------------------------------------------
(* The main program of code.py: run() up to the main loop, then the loop,   *)
(* one action per step of an iteration.                                     *)

\* Readings of time.monotonic() when run() is entered.
BootClocks == {0, 12, 297}

\* A reading of time.monotonic() just short of TIME_SYNC_INTERVAL.
LateBootClock == 3597

\* Times of day at which run() is entered.
BootTimes ==
    { TimeOfDay(9, 0, 0), TimeOfDay(12, 30, 0), TimeOfDay(6, 59, 30),
      TimeOfDay(23, 30, 0) }

\* What fetch_dog_feed_status finds: the WiFi link ("up", "down" and not
\* reconnected, "back" after a reconnect) and the status of the response.
\* NoData is a fetch that returned None (WiFi down, three failed attempts) or
\* an empty status object: "if status_data" is false for both.
NoData == [ok |-> FALSE, status |-> DefaultSnapshot]

FetchOutcomes ==
    { [wifi |-> "down", data |-> NoData] } \cup
    { [wifi |-> w, data |-> d] :
        w \in {"up", "back"},
        d \in { NoData } \cup
              { [ok |-> TRUE, status |-> st] :
                  st \in { DefaultSnapshot, Snapshot(IsoA, NotFed), Snapshot(LocalA, NotFed) } } }

\* connection_failures after ensure_wifi_connected / connect_wifi.
AfterWifi(r, f) ==
    IF f.wifi = "down" THEN [r EXCEPT !.connection_failures = @ + 1]
    ELSE IF f.wifi = "back" THEN [r EXCEPT !.connection_failures = 0]
    ELSE r

\* The run record r0 after a reconcile with result r: one more refresh was
\* requested if the reconcile asked for one.
Counted(r0, r) ==
    [r0 EXCEPT !.refreshes = IF r.requested /\ @ < 2 THEN @ + 1 ELSE @]

\* The result of a reconcile that was not made.
NotReconciled(d) ==
    [ d |-> d, requested |-> FALSE, hw_called |-> FALSE, performed |-> FALSE,
      raised |-> FALSE, answer |-> "none", changed |-> FALSE ]

\* A variant that shows the default snapshot when the fetch brought nothing.
ShowStatus_DefaultOnFailure(d, f, force_refresh, now, hw) ==
    update_display_from_status(d, f.data.status, force_refresh, now, hw)

\* "if status_data: self.update_display_from_status(status_data, force_refresh)"
ShowStatus(d, f, force_refresh, now, hw) ==
    IF f.data.ok
    THEN update_display_from_status(d, f.data.status, force_refresh, now, hw)
    ELSE NotReconciled(d)

\* The display variables after a fetch f and its reconcile with result r.
Shown(f, force_refresh, r) ==
    /\ dm' = r.d
    /\ panel' = Painted(panel, r, clock)
    /\ store' = IF f.data.ok THEN f.data.status ELSE store
    /\ last' = IF f.data.ok THEN CallRecord(f.data.status, force_refresh, r) ELSE last

\* "except Exception: time.sleep(5)", then the next iteration.
AfterError(r) ==
    /\ run' = [r EXCEPT !.pc = "top", !.iterations = @ + 1]
    /\ clock' = clock + 5
    /\ rtc' = (rtc + 5) % SecondsPerDay

\* The feeding topics the MQTT client has topic callbacks for.
MQTT_MORNING_TOPIC == "dog/fed/morning"
MQTT_EVENING_TOPIC == "dog/fed/evening"
FeedingTopics == {MQTT_MORNING_TOPIC, MQTT_EVENING_TOPIC}

\* Payloads of the messages received: a clearing payload and a fed time.
Payloads == {"", "5:45:50 pm"}

\* The snapshot a payload on a topic would stand for, were it trusted.
PayloadSnapshot(topic, message) ==
    LET st == IF message = "" THEN NotFed ELSE LocalA
    IN  IF topic = MQTT_MORNING_TOPIC THEN Snapshot(st, NotFed)
        ELSE Snapshot(NotFed, st)

\* A variant of the trigger handler that shows what the payload says.
on_feeding_trigger_FromPayload(d, topic, message, f, now, hw) ==
    update_display_from_status(d, PayloadSnapshot(topic, message), TRUE, now, hw)

\* DogFeedingTracker.on_feeding_trigger: fetch the latest status (f) and, if
\* there is one, reconcile it with force_refresh=True.
on_feeding_trigger(d, topic, message, f, now, hw) ==
    ShowStatus(d, f, TRUE, now, hw)

\* The event source of kind k that fired with fetch f.
Fired(k, topic, message, f) ==
    [ kind |-> k, topic |-> topic, payload |-> message, fetched |-> TRUE,
      got |-> f.data.ok ]

\* A variant of the poll guard that fires at equality too.
PollDue_AtEquality(now, last_status_fetch) ==
    now - last_status_fetch >= STATUS_FETCH_INTERVAL

\* "if time.monotonic() - self.last_status_fetch > Config.STATUS_FETCH_INTERVAL"
PollDue(now, last_status_fetch) ==
    now - last_status_fetch > STATUS_FETCH_INTERVAL

\* NetworkManager.check_connection_health:
\* "return self.connection_failures <= Config.CONNECTION_FAILURE_THRESHOLD"
check_connection_health(connection_failures) ==
    connection_failures <= CONNECTION_FAILURE_THRESHOLD

\* A variant of the health check that resets at the threshold already.
TooManyFailures_AtThreshold(connection_failures) ==
    connection_failures >= CONNECTION_FAILURE_THRESHOLD

\* "if self.connection_failures > Config.CONNECTION_FAILURE_THRESHOLD"
TooManyFailures(connection_failures) ==
    connection_failures > CONNECTION_FAILURE_THRESHOLD

\* The starts of run() that are followed: a fresh start at each boot clock
\* and time of day, a wake from deep sleep, and a start one hour in.
BootStarts ==
    { [clock |-> c, rtc |-> t, wake_alarm |-> FALSE] :
        c \in BootClocks, t \in BootTimes } \cup
    { [clock |-> 0, rtc |-> TimeOfDay(9, 0, 0), wake_alarm |-> TRUE],
      [clock |-> LateBootClock, rtc |-> TimeOfDay(9, 0, 0), wake_alarm |-> FALSE] }

InitRun ==
    /\ impl = "code"
    /\ dm = InitDm
    /\ panel = BootPanel
    /\ store = DefaultSnapshot
    /\ last = NoCall
    /\ window = CodeWindows
    /\ \E b \in BootStarts :
         /\ clock = b.clock
         /\ rtc = b.rtc
         /\ run = [NotRunning EXCEPT !.wake_alarm = b.wake_alarm]
    /\ sleep = NotChecked
    /\ event = NoEvent
    /\ net = InitNet
    /\ btn = InitBtn
    /\ probe = NoProbe

\* run() up to "Entering main loop...": connect_mqtt, the initial fetch and
\* its forced reconcile.  An exception here leaves run(): main() resets, and
\* the next start is not a wake from deep sleep.
Boot ==
    /\ run.pc = "off"
    /\ \E mqtt_ok \in BOOLEAN, f \in FetchOutcomes, hw \in HwChoices(dm, clock) :
         \E r \in {ShowStatus(dm, f, TRUE, clock, hw)} :
           /\ IF r.raised
              THEN /\ run' = [run EXCEPT !.wake_alarm = FALSE]
                   /\ UNCHANGED <<dm, panel, store, last, event>>
              ELSE /\ Shown(f, TRUE, r)
                   /\ run' = [Counted(AfterWifi(run, f), r) EXCEPT !.pc = "top",
                                                       !.mqtt_connected = mqtt_ok]
                   /\ event' = Fired("boot", "", "", f)
           /\ UNCHANGED <<impl, clock, window, rtc, sleep, Apart>>

\* Top of the loop: "# self.check_time_window()".
LoopSchedule ==
    /\ run.pc = "top"
    /\ run.iterations < MaxIterations
    /\ IF CheckTimeWindowInLoop
       THEN /\ sleep' = check_time_window(window, rtc)
            /\ run' = [run EXCEPT !.pc = IF sleep'.deep_sleep THEN "asleep" ELSE "sync"]
       ELSE /\ sleep' = sleep
            /\ run' = [run EXCEPT !.pc = "sync"]
    /\ event' = NoEvent
    /\ UNCHANGED <<Display, window, rtc, Apart>>

\* A variant of the sync guard that is due at the interval already.
SyncDue_AtEquality(now, last_sync) == now - last_sync >= TIME_SYNC_INTERVAL

\* "if time.monotonic() - self.last_sync > Config.TIME_SYNC_INTERVAL"
SyncDue(now, last_sync) == now - last_sync > TIME_SYNC_INTERVAL

\* What set_device_time finds: the WiFi link as ensure_wifi_connected finds
\* it, and whether the time API answered with a time that could be set (any
\* exception is caught inside and makes it return False).
SyncOutcomes ==
    { [wifi |-> "down", ok |-> FALSE] } \cup
    { [wifi |-> w, ok |-> b] : w \in {"up", "back"}, b \in BOOLEAN }

\* Periodic time sync: "if self.set_device_time(): self.last_sync = now".
LoopTimeSync ==
    /\ run.pc = "sync"
    /\ IF SyncDue(clock, run.last_sync)
       THEN \E f \in SyncOutcomes :
              /\ run' = [AfterWifi(run, f) EXCEPT
                           !.pc = "mqtt",
                           !.last_sync = IF f.ok THEN clock ELSE @]
              /\ event' = [NoEvent EXCEPT !.kind = "sync", !.got = f.ok]
       ELSE /\ run' = [run EXCEPT !.pc = "mqtt"]
            /\ event' = NoEvent
    /\ UNCHANGED <<Display, window, rtc, sleep, Apart>>

\* A variant of the handling around the client loop that keeps the
\* connection flag when the loop raises.
LoopGuard_KeepsConnection(raised) == TRUE

\* "try: self.mqtt_client.loop(...) except Exception as e: ...
\* self.mqtt_connected = False": mqtt_connected after the client loop.
LoopGuard(raised) == ~raised

\* Handle MQTT: the client loop (which may deliver a message on a feeding
\* topic to on_feeding_trigger, or fail), or a reconnect.  An exception that
\* leaves on_feeding_trigger leaves mqtt_client.loop too and is caught by
\* "except Exception as e: ... self.mqtt_connected = False" around the loop.
\* Without a message the step is recorded as "loop ok", "loop error",
\* "reconnect ok" or "reconnect failed".
LoopMqtt ==
    /\ run.pc = "mqtt"
    /\ \/ /\ run.mqtt_connected
          /\ \E loop_ok \in BOOLEAN :
               /\ run' = [run EXCEPT !.pc = "poll",
                                     !.mqtt_connected = LoopGuard(~loop_ok)]
               /\ event' = [NoEvent EXCEPT
                             !.kind = IF loop_ok THEN "loop ok" ELSE "loop error"]
          /\ UNCHANGED <<Display, window, rtc, sleep, Apart>>
       \/ /\ ~run.mqtt_connected
          /\ \E connect_ok \in BOOLEAN :
               /\ run' = [run EXCEPT !.pc = "poll", !.mqtt_connected = connect_ok]
               /\ event' = [NoEvent EXCEPT
                             !.kind = IF connect_ok THEN "reconnect ok"
                                      ELSE "reconnect failed"]
          /\ UNCHANGED <<Display, window, rtc, sleep, Apart>>
       \/ /\ run.mqtt_connected
          /\ \E topic \in FeedingTopics, message \in Payloads,
                f \in FetchOutcomes, hw \in HwChoices(dm, clock) :
               \E r \in {on_feeding_trigger(dm, topic, message, f, clock, hw)} :
                 /\ Shown(f, TRUE, r)
                 /\ event' = Fired("mqtt", topic, message, f)
                 /\ run' = [Counted(AfterWifi(run, f), r) EXCEPT !.pc = "poll",
                                            !.mqtt_connected = LoopGuard(r.raised)]
                 /\ UNCHANGED <<clock, rtc>>
          /\ UNCHANGED <<impl, window, sleep, Apart>>

\* Periodic status fetch (fallback), never forced.
LoopPoll ==
    /\ run.pc = "poll"
    /\ IF PollDue(clock, run.last_status_fetch)
       THEN \E f \in FetchOutcomes, hw \in HwChoices(dm, clock) :
              \E r \in {ShowStatus(dm, f, FALSE, clock, hw)} :
                /\ Shown(f, FALSE, r)
                /\ event' = Fired("poll", "", "", f)
                /\ IF r.raised
                   THEN AfterError(Counted(AfterWifi(run, f), r))
                   ELSE /\ run' = [Counted(AfterWifi(run, f), r) EXCEPT !.pc = "health",
                                                           !.last_status_fetch = clock]
                        /\ UNCHANGED <<clock, rtc>>
       ELSE /\ run' = [run EXCEPT !.pc = "health"]
            /\ event' = NoEvent
            /\ UNCHANGED <<dm, clock, panel, store, last, rtc>>
    /\ UNCHANGED <<impl, window, sleep, Apart>>

\* Check connection health: too many failures reset the microcontroller.
LoopHealth ==
    /\ run.pc = "health"
    /\ IF TooManyFailures(run.connection_failures)
       THEN /\ run' = [NotRunning EXCEPT !.iterations = run.iterations + 1]
            /\ dm' = InitDm
            /\ store' = DefaultSnapshot
            /\ last' = NoCall
       ELSE /\ run' = [run EXCEPT !.pc = "delay"]
            /\ UNCHANGED <<dm, store, last>>
    /\ event' = NoEvent
    /\ UNCHANGED <<impl, clock, panel, window, rtc, sleep, Apart>>

\* "time.sleep(3)", then the next iteration.
LoopDelay ==
    /\ run.pc = "delay"
    /\ run' = [run EXCEPT !.pc = "top", !.iterations = @ + 1]
    /\ clock' = clock + 3
    /\ rtc' = (rtc + 3) % SecondsPerDay
    /\ last' = NoCall
    /\ UNCHANGED <<impl, dm, panel, store, window, sleep, event, Apart>>

NextRun ==
    Boot \/ LoopSchedule \/ LoopTimeSync \/ LoopMqtt \/ LoopPoll \/ LoopHealth \/ LoopDelay

SpecRun == InitRun /\ [][NextRun]_vars

---------------------------------------------------------------------------
(* Claims about the reconciler and the rate gate (specification Spec) *)

\* A step that is a reconcile call made once the first update is done.
ReconcileAfterFirst == last'.op = "reconcile" /\ ~dm.first_update

\* C1 - No missed change: once the first update is done, reconciling a snapshot
\* that differs from the stored one under the slot-equality rule (a fed flag
\* differs, or both fed with a different displayed time) always issues a
\* refresh request, whatever force_refresh is.
C1_NoMissedChange ==
    [][ (ReconcileAfterFirst /\ ~SnapshotEqual(impl, store, store'))
          => last'.requested ]_vars

\* C1 witness: an unforced reconcile of a changed snapshot, after the first
\* update, whose refresh request was made and stopped by the rate gate.
C1_Witness ==
    /\ last.op = "reconcile" /\ ~last.first /\ ~last.force /\ ~last.same
    /\ last.changed /\ last.requested /\ ~last.hw_called

\* C2 as claimed - a change whose refresh was dropped is repainted by a later
\* reconcile of the same snapshot: when the panel, painted earlier in this
\* boot, is behind the stored content and the same snapshot is reconciled again
\* at a time the rate gate is open, the request reaches the hardware refresh.
C2_DroppedChangeIsRepainted ==
    [][ (/\ ReconcileAfterFirst
         /\ store' = store
         /\ panel.at >= 0
         /\ panel.content # Content(dm)
         /\ clock - dm.last_refresh >= DISPLAY_REFRESH_MIN_INTERVAL)
          => last'.hw_called ]_vars

\* C3 as claimed - first-update guarantee: the first reconcile of a boot
\* performs a hardware refresh, whatever force_refresh and the clock are.
C3_FirstUpdateRefreshes ==
    (last.op = "reconcile" /\ last.first) => last.performed

\* C4 - Rate limit: a refresh requested less than DISPLAY_REFRESH_MIN_INTERVAL
\* after a performed hardware refresh never reaches board.DISPLAY.refresh(),
\* changed or forced as it may be, and two performed refreshes are at least
\* DISPLAY_REFRESH_MIN_INTERVAL apart.
C4_RateLimit ==
    [][ /\ (/\ last'.op # "none"
            /\ panel.at >= 0
            /\ clock - panel.at > 0
            /\ clock - panel.at < DISPLAY_REFRESH_MIN_INTERVAL)
             => ~last'.hw_called
        /\ (panel.at >= 0 /\ panel'.at # panel.at)
             => panel'.at - panel.at >= DISPLAY_REFRESH_MIN_INTERVAL ]_vars

\* C4 witness: a changed or forced reconcile made 1..9 seconds after a
\* performed refresh, whose request ended before the hardware call.
C4_Witness ==
    /\ last.op = "reconcile" /\ last.requested /\ ~last.hw_called
    /\ last.changed /\ last.force
    /\ panel.at >= 0
    /\ clock - panel.at > 0
    /\ clock - panel.at < DISPLAY_REFRESH_MIN_INTERVAL

\* C5 as claimed - idempotence: of two reconciles in a row of the same
\* snapshot, both with force_refresh = False, the second requests no refresh.
C5_SecondCallSkips ==
    [][ (/\ last.op = "reconcile" /\ ~last.force
         /\ last'.op = "reconcile" /\ ~last'.force
         /\ store' = store)
          => ~last'.requested ]_vars

\* C5 amended - idempotence once the first update has completed: reconciling
\* the stored snapshot again with force_refresh = False requests no refresh.
C5_SecondCallSkipsAfterFirst ==
    [][ (ReconcileAfterFirst /\ ~last'.force /\ store' = store)
          => (~last'.changed /\ ~last'.requested) ]_vars

\* C5 witness: the second of two reconciles of one fed snapshot, unforced,
\* found nothing changed and requested nothing.
C5_Witness ==
    /\ last.op = "reconcile" /\ ~last.first /\ last.same /\ ~last.force
    /\ Truthy(store.morning)
    /\ ~last.changed /\ ~last.requested

\* C6 as claimed - snapshots whose timestamps differ only in their seconds are
\* equal: reconciling one after the other with force_refresh = False computes
\* changed = False and requests no refresh.
C6_SecondsDoNotCount ==
    [][ (ReconcileAfterFirst /\ ~last'.force /\ DifferOnlyInSeconds(store, store'))
          => (~last'.changed /\ ~last'.requested) ]_vars

\* C7 - Forced reconcile: once the first update is done, a reconcile with
\* force_refresh = True always requests a refresh, and one with
\* force_refresh = False that leaves sprites and labels as they were requests
\* none.
C7_ForceDecides ==
    [][ ReconcileAfterFirst =>
          /\ last'.force => last'.requested
          /\ (~last'.force /\ Content(dm') = Content(dm)) => ~last'.requested ]_vars

\* C7 witness: a forced reconcile of the stored snapshot, nothing changed, the
\* refresh requested all the same.
C7_Witness ==
    /\ last.op = "reconcile" /\ ~last.first /\ last.force /\ last.same
    /\ ~last.changed /\ last.requested

\* The hour of a time of day.
HourOf(t) == t \div SecondsPerHour

\* A time of day inside the morning or the evening window.
InActiveWindow(w, t) ==
    \/ w.MORNING_START <= HourOf(t) /\ HourOf(t) < w.MORNING_END
    \/ w.EVENING_START <= HourOf(t) /\ HourOf(t) < w.EVENING_END

\* Seconds from time of day t to the next start of a window, today or tomorrow.
ToNextStart(w, t) ==
    LET starts == { TimeOfDay(w.MORNING_START, 0, 0), TimeOfDay(w.EVENING_START, 0, 0) }
        ahead == { st - t : st \in starts } \cup { st + SecondsPerDay - t : st \in starts }
        later == { d \in ahead : d > 0 }
    IN  CHOOSE d \in later : \A e \in later : d <= e

\* C8 - Sleep decision by hour: before the morning window the target is the
\* morning start of today, between the windows it is the evening start of
\* today, from the end of the evening window on it is the morning start of
\* tomorrow, and inside a window no sleep is computed.  With 7/11/16/21:
\* 06:00 gives 3600 s, 09:00 stays active, 12:30 gives 12600 s and 22:00
\* gives 32400 s.
C8_SleepDecisionByHour ==
    sleep.called =>
        /\ HourOf(sleep.now) < window.MORNING_START =>
              /\ sleep.sleep_reason = "before morning window"
              /\ sleep.now + sleep.seconds_to_sleep = TimeOfDay(window.MORNING_START, 0, 0)
        /\ (window.MORNING_END <= HourOf(sleep.now) /\ HourOf(sleep.now) < window.EVENING_START) =>
              /\ sleep.sleep_reason = "between feeding windows"
              /\ sleep.now + sleep.seconds_to_sleep = TimeOfDay(window.EVENING_START, 0, 0)
        /\ HourOf(sleep.now) >= window.EVENING_END =>
              /\ sleep.sleep_reason = "after evening window"
              /\ sleep.now + sleep.seconds_to_sleep
                    = SecondsPerDay + TimeOfDay(window.MORNING_START, 0, 0)
        /\ InActiveWindow(window, sleep.now) =>
              /\ sleep.seconds_to_sleep = 0
              /\ ~sleep.deep_sleep
        /\ window = ConfigWindows =>
              /\ sleep.now = TimeOfDay(6, 0, 0) =>
                    (sleep.seconds_to_sleep = 3600 /\ sleep.deep_sleep)
              /\ sleep.now = TimeOfDay(9, 0, 0) => ~sleep.deep_sleep
              /\ sleep.now = TimeOfDay(12, 30, 0) =>
                    (sleep.seconds_to_sleep = 12600 /\ sleep.deep_sleep)
              /\ sleep.now = TimeOfDay(22, 0, 0) =>
                    (sleep.seconds_to_sleep = 32400 /\ sleep.deep_sleep)

C8_Witness ==
    /\ sleep.called /\ window = ConfigWindows /\ sleep.now = TimeOfDay(22, 0, 0)
    /\ sleep.seconds_to_sleep = 32400 /\ sleep.sleep_reason = "after evening window"
    /\ sleep.deep_sleep

\* C9 - Sleep threshold: the device enters deep sleep exactly when the time is
\* outside both windows and the next window start is more than 60 seconds
\* away; within 60 s of the next start, and inside a window, it stays awake.
C9_SleepThreshold ==
    sleep.called =>
        ( sleep.deep_sleep <=>
            ( ~InActiveWindow(window, sleep.now)
              /\ ToNextStart(window, sleep.now) > 60 ) )

C9_Witness ==
    /\ sleep.called /\ ~InActiveWindow(window, sleep.now)
    /\ sleep.seconds_to_sleep = 60 /\ ~sleep.deep_sleep

\* The positions of an iteration after the top of the loop.
InIteration == {"sync", "mqtt", "poll", "health", "delay"}

\* C10 - The scheduler is consulted in every main-loop iteration: a device
\* that is past the top of an iteration at a time outside both windows, more
\* than 60 s before the next window start, does not exist - it went to deep
\* sleep at the top of that iteration.
C10_SleepsOutsideWindows ==
    run.pc \in InIteration =>
        ( InActiveWindow(window, rtc) \/ ToNextStart(window, rtc) <= 60 )

---------------------------------------------------------------------------
(* Further claims about the reconciler and the rate gate (specification Spec) *)

\* The colour a slot's pixel has to show.
PixelFor(status) == IF Truthy(status) THEN "GREEN" ELSE "RED"

\* C12 - Indicators are updated unconditionally: after every reconcile,
\* whether its refresh was performed, not requested, or stopped by the rate
\* gate, the morning pixel is green iff the morning slot is fed and red
\* otherwise, and the evening pixel likewise.
C12_IndicatorsFollowStatus ==
    last.op = "reconcile" =>
        /\ dm.pixels[MORNING_PIXEL] = PixelFor(store.morning)
        /\ dm.pixels[EVENING_PIXEL] = PixelFor(store.evening)

\* C12 witness: a reconcile of a snapshot with the morning slot fed whose
\* refresh request was stopped by the interval check; the pixel is green.
C12_Witness ==
    /\ last.op = "reconcile" /\ last.requested /\ ~last.hw_called
    /\ Truthy(store.morning) /\ dm.pixels[MORNING_PIXEL] = "GREEN"
    /\ panel.content # Content(dm)

\* C13 - Rate gate frame condition: a refresh requested while the software
\* interval check fails ends without calling the hardware and leaves
\* last_refresh as it was; last_refresh changes only when the hardware refresh
\* completed without error, and then to the current monotonic time.
C13_GateFrame ==
    [][ /\ (last'.requested /\ clock - dm.last_refresh < DISPLAY_REFRESH_MIN_INTERVAL)
             => (~last'.hw_called /\ dm'.last_refresh = dm.last_refresh)
        /\ dm'.last_refresh # dm.last_refresh
             => (last'.answer = "ok" /\ last'.performed /\ dm'.last_refresh = clock)
      ]_vars

\* C13 witness: a direct refresh request made inside the interval that
\* follows a performed refresh; the hardware was not called.
C13_Witness ==
    /\ last.op = "refresh" /\ last.requested /\ ~last.hw_called
    /\ dm.last_refresh > 0 /\ dm.last_refresh = panel.at
    /\ clock - dm.last_refresh < DISPLAY_REFRESH_MIN_INTERVAL

\* C14 - Hardware rejection is not an error: when board.DISPLAY.refresh()
\* raises "too soon", refresh_display swallows it, last_refresh stays, and the
\* reconciler goes on (a first update clears first_update); when it raises
\* another RuntimeError the exception leaves refresh_display and the caller.
C14_TooSoonIsSwallowed ==
    [][ /\ last'.answer = "too soon"
             => /\ ~last'.raised /\ ~last'.performed
                /\ dm'.last_refresh = dm.last_refresh
                /\ last'.op = "reconcile" => ~dm'.first_update
        /\ last'.answer = "error"
             => /\ last'.raised /\ ~last'.performed
                /\ dm'.last_refresh = dm.last_refresh
      ]_vars

\* C14 witness: a first update whose hardware refresh answered "too soon":
\* nothing was raised, nothing painted, first_update is cleared.
C14_Witness ==
    /\ last.op = "reconcile" /\ last.first /\ last.answer = "too soon"
    /\ ~last.raised /\ ~last.performed /\ ~dm.first_update

---------------------------------------------------------------------------
(* Claims about the timestamp functions (specification SpecParse) *)

\* "H:MM AM/PM" of hour h (UTC) and minute m moved by offset o hours.
Clock12h(h, m, o) ==
    LET local == (h + o + 24) % 24
    IN  Text("12h", IF local % 12 = 0 THEN 12 ELSE local % 12, m, 0,
             IF local < 12 THEN "AM" ELSE "PM")

\* C11 as claimed - timestamp normalization: an ISO-8601 UTC timestamp of hour
\* h and minute m is displayed as the 12-hour AM/PM rendering of
\* ((h + offset) mod 24):m, so that "2025-08-23T14:26:25Z" with offset -5 is
\* displayed as "9:26 AM".
C11_IsoShownAs12h ==
    (probe.op = "parse" /\ probe.ts.fmt = "iso") =>
        probe.shown = Clock12h(probe.ts.h, probe.ts.m, TIMEZONE_OFFSET)

---------------------------------------------------------------------------
(* Claims about the event sources of the main loop (specification SpecRun) *)

\* The label a slot shows for a status, as update_display_from_status sets it.
CodeLabelFor(status) ==
    IF Truthy(status) THEN CodeFedText(status) ELSE NotFedLabel

\* The sprites, labels and pixels show the snapshot sn.
Shows(d, sn) ==
    /\ d.morning_sprite = (IF Truthy(sn.morning) THEN 1 ELSE 0)
    /\ d.evening_sprite = (IF Truthy(sn.evening) THEN 1 ELSE 0)
    /\ d.morning_label = CodeLabelFor(sn.morning)
    /\ d.evening_label = CodeLabelFor(sn.evening)
    /\ d.pixels[MORNING_PIXEL] = PixelFor(sn.morning)
    /\ d.pixels[EVENING_PIXEL] = PixelFor(sn.evening)

\* C15 - MQTT trigger: a message on either feeding topic, whatever its
\* payload, makes the handler fetch the status from the API and, when a status
\* came back, reconcile that status with force_refresh = True: the display
\* fields then show the fetched snapshot, never what the payload says.
C15_MqttTriggerRefetches ==
    event.kind = "mqtt" =>
        /\ event.topic \in FeedingTopics
        /\ event.fetched
        /\ event.got =>
              /\ last.op = "reconcile" /\ last.force /\ last.requested
              /\ Shows(dm, store)

\* C15 witness: a message on the evening topic with a fed-time payload, while
\* the API reports the morning slot fed and the evening slot not fed: the
\* fetched snapshot is shown, refresh forced.
C15_Witness ==
    /\ event.kind = "mqtt" /\ event.topic = MQTT_EVENING_TOPIC
    /\ event.payload = "5:45:50 pm" /\ event.got
    /\ store = Snapshot(IsoA, NotFed)
    /\ last.op = "reconcile" /\ last.force /\ ~last.changed /\ last.requested
    /\ Shows(dm, store)

\* C16 as claimed - periodic poll: in the iteration where
\* now - last_status_fetch >= STATUS_FETCH_INTERVAL, equality included, the
\* poll fires and fetches the status.
C16_PollFiresAtInterval ==
    [][ (run.pc = "poll" /\ clock - run.last_status_fetch >= STATUS_FETCH_INTERVAL)
          => (event'.kind = "poll" /\ event'.fetched) ]_vars

\* C16 amended - periodic poll: the poll step fires exactly when
\* now - last_status_fetch > STATUS_FETCH_INTERVAL (not at equality); it then
\* fetches the status, reconciles a status that came back with
\* force_refresh = False, and sets last_status_fetch to now unless the
\* reconcile raised.
C16_PollFiresPastInterval ==
    [][ run.pc = "poll" =>
          /\ (event'.kind = "poll")
                <=> (clock - run.last_status_fetch > STATUS_FETCH_INTERVAL)
          /\ event'.kind = "poll" =>
                /\ event'.fetched
                /\ event'.got =>
                      /\ last'.op = "reconcile" /\ ~last'.force
                      /\ Shows(dm', store')
                /\ ~(event'.got /\ last'.raised) => run'.last_status_fetch = clock
      ]_vars

\* C16 witness: a poll that fired 303 s after the last fetch, got a status
\* and reconciled it unforced.
C16_Witness ==
    /\ event.kind = "poll" /\ event.got /\ run.pc = "health"
    /\ last.op = "reconcile" /\ ~last.force
    /\ run.last_status_fetch = clock /\ clock > STATUS_FETCH_INTERVAL

\* C17 - button action: every handled button press publishes the status
\* change (when the MQTT client accepts it) and triggers a re-fetch of the
\* status that is reconciled with force_refresh = True.
C17_PressPublishesAndRefetches ==
    btn.press.handled =>
        /\ btn.press.success => net.published # NoMessage
        /\ event.fetched
        /\ last.op = "reconcile" /\ last.force

\* The slot and the meaning of the button on each pin, left to right.
ButtonMeaning(pin) ==
    CASE pin = "D15" -> [slot |-> "morning", fed |-> TRUE]
      [] pin = "D14" -> [slot |-> "morning", fed |-> FALSE]
      [] pin = "D12" -> [slot |-> "evening", fed |-> TRUE]
      [] pin = "D11" -> [slot |-> "evening", fed |-> FALSE]

\* The local time t as "H:MM:SS am/pm": hours 1..12 without leading zero.
Stamp12(t) ==
    [ form |-> "H:MM:SS am/pm",
      hh |-> ((t \div 3600 + 11) % 12) + 1,
      mm |-> (t \div 60) % 60,
      ss |-> t % 60,
      ap |-> IF t < 12 * 3600 THEN "am" ELSE "pm" ]

\* C18 - button mapping and payload: the buttons on pins D15, D14, D12, D11
\* are morning-fed, morning-clear, evening-fed, evening-clear; a published
\* "fed" message carries the current local time as "H:MM:SS am/pm", a
\* published "clear" message the configured not-fed payload, and the topic
\* is always that of the button's own slot.
C18_ButtonMappingAndPayload ==
    (btn.press.handled /\ btn.press.success) =>
        LET m == ButtonMeaning(btn.press.pin)
        IN  /\ btn.press.pin = BUTTON_PINS[btn.press.index + 1]
            /\ net.published.topic =
                   (IF m.slot = "morning" THEN "dog/fed/morning" ELSE "dog/fed/evening")
            /\ net.published.text =
                   (IF m.fed THEN Stamp12(rtc) ELSE MQTT_NOT_FED_PAYLOAD)

\* C18 witness: the button on D14 was pressed in the afternoon and its
\* clear message went out on the morning topic.
C18_Witness ==
    /\ btn.press.handled /\ btn.press.success /\ btn.press.pin = "D14"
    /\ net.published = [topic |-> "dog/fed/morning", text |-> MQTT_NOT_FED_PAYLOAD]
    /\ rtc > 12 * 3600

\* C19 - bounded fetch retry: fetch_dog_feed_status makes at most MAX_RETRIES
\* HTTP attempts, sleeps RETRY_DELAY before every further attempt, whether the
\* attempt before it brought a non-200 response or an exception, never
\* raises, and returns None when the attempts are exhausted.
C19_BoundedRetryWithDelay ==
    probe.op = "fetch" =>
        /\ probe.out.attempts <= MAX_RETRIES
        /\ ~probe.out.raised
        /\ probe.out.exhausted => probe.out.result = "None"
        /\ Len(probe.out.gaps) = (IF probe.out.attempts = 0 THEN 0
                                  ELSE probe.out.attempts - 1)
        /\ \A i \in 1..Len(probe.out.gaps) : probe.out.gaps[i] = RETRY_DELAY

\* C20 - connectivity watchdog: the failure counter moves only by +1 (a
\* failed connection attempt) or back to 0; the health step of the main loop
\* resets the device exactly when the counter is above 5, which is when
\* check_connection_health answers False, and never at or below 5.
C20_WatchdogResetsAboveThreshold ==
    [][ /\ run'.connection_failures \in
              {run.connection_failures, run.connection_failures + 1, 0}
        /\ run.pc = "health" =>
              /\ (run'.pc = "off") <=> (run.connection_failures > 5)
              /\ (run'.pc = "off") <=> ~check_connection_health(run.connection_failures)
              /\ run'.pc = "off" => run'.connection_failures = 0
      ]_vars

\* C20 witness: the device was reset by the health step and is about to
\* start again.
C20_Witness ==
    /\ run.pc = "off" /\ run.iterations > 0
    /\ run.connection_failures = 0 /\ dm = InitDm

\* C21 - only consecutive failures count: whenever a fetch found the
\* connection healthy (ensure_wifi_connected succeeded and a status came
\* back), the failure counter is back at 0.
C21_HealthyConnectionClearsCounter ==
    (event.fetched /\ event.got) => run.connection_failures = 0

\* C22 - main-loop fault tolerance: an exception raised by a reconcile inside
\* a main-loop iteration is caught at the top of the loop: the loop sleeps
\* 5 s and starts its next iteration, without a reset, and first_update,
\* last_refresh and the content written before the fault stay as they were.
C22_FaultCaughtAtTopOfLoop ==
    [][ (run.pc \in {"mqtt", "poll"} /\ event'.got /\ last'.raised) =>
          /\ run'.pc = "top" /\ run'.iterations = run.iterations + 1
          /\ clock' = clock + 5
          /\ run'.mqtt_connected = run.mqtt_connected
          /\ dm'.first_update = dm.first_update
          /\ dm'.last_refresh = dm.last_refresh
          /\ Shows(dm', store')
      ]_vars

\* C23 - flash save/restore: after a handled press, with the feedback flash
\* and, when the publish failed, the error flash right after it, every
\* indicator pixel holds the colour it had before the press; no white, red
\* or off colour of a flash remains.
C23_FlashRestoresPixels ==
    [][ btn'.press.handled =>
          /\ dm'.pixels = dm.pixels
          /\ \A i \in DOMAIN dm.pixels : dm'.pixels[i] # "WHITE"
      ]_vars

\* C23 witness: the evening-clear button was handled while the evening pixel
\* was green and the morning pixel red, the publish failed, and after both
\* flashes the pixels still show green and red.
C23_Witness ==
    /\ btn.press.handled /\ ~btn.press.success /\ btn.press.index = 3
    /\ dm.pixels[EVENING_PIXEL] = "GREEN" /\ dm.pixels[MORNING_PIXEL] = "RED"
    /\ dm.pixels[1] = "OFF"

\* C24 - publish outcome as a boolean: publish_feeding_status answers True
\* exactly when mqtt_client.publish completed; it answers False and publishes
\* nothing when there is no client or a needed reconnect failed, answers False
\* and leaves mqtt_connected = False when publish raised, and every call ends
\* in one of these four ways.
C24_PublishAnswersBoolean ==
    [][ btn'.press.handled =>
          /\ btn'.press.outcome \in
                {"no client", "reconnect failed", "publish raised", "published"}
          /\ btn'.press.success <=> (btn'.press.outcome = "published")
          /\ btn'.press.success <=> (net'.published # NoMessage)
          /\ btn'.press.success => net'.mqtt_connected
          /\ (btn'.press.outcome = "no client") <=> ~net.mqtt_client
          /\ btn'.press.outcome = "no client" => net'.mqtt_connected = net.mqtt_connected
          /\ btn'.press.outcome = "reconnect failed" =>
                ~net.mqtt_connected /\ ~net'.mqtt_connected
          /\ btn'.press.outcome = "publish raised" => ~net'.mqtt_connected
      ]_vars

\* C24 witness: publish raised on a connected client; the press failed,
\* nothing counts as published and the client is marked disconnected.
C24_Witness ==
    /\ btn.press.handled /\ btn.press.outcome = "publish raised"
    /\ ~btn.press.success /\ net.published = NoMessage
    /\ net.mqtt_client /\ ~net.mqtt_connected

\* C25 - wake from sleep: a start that is a wake from deep sleep reconciles
\* the first fetched snapshot with force_refresh = True and requests a second,
\* unconditional refresh shortly afterwards: once the first main-loop
\* iteration is over, a refresh has been requested, and two have been once a
\* reconcile has completed.
C25_WakeRequestsSecondRefresh ==
    /\ (event.kind = "boot" /\ event.got) => (last.op = "reconcile" /\ last.force)
    /\ (run.wake_alarm /\ run.pc # "off" /\ run.iterations >= 1) =>
          /\ run.refreshes >= 1
          /\ ~dm.first_update => run.refreshes >= 2

\* The place of step x in the sequence q, 0 if it is not there.
StepAt(q, x) ==
    IF \E i \in 1..Len(q) : q[i] = x
    THEN CHOOSE i \in 1..Len(q) : q[i] = x
    ELSE 0

\* C26 - sleep hand-off ordering: whenever check_time_window decides to
\* sleep, the pixels are turned off and the MQTT client, if it was connected,
\* is disconnected before deep sleep is entered, and the alarm is set to the
\* monotonic time plus the computed duration.
C26_CleanupBeforeDeepSleep ==
    [][ sleep'.deep_sleep =>
          /\ probe'.op = "sleep"
          /\ \A i \in DOMAIN dm'.pixels : dm'.pixels[i] = "OFF"
          /\ StepAt(probe'.steps, "deep sleep") = Len(probe'.steps)
          /\ StepAt(probe'.steps, "pixels off") \in 1..(Len(probe'.steps) - 1)
          /\ run.mqtt_connected <=>
                StepAt(probe'.steps, "mqtt disconnect") \in 1..(Len(probe'.steps) - 1)
          /\ probe'.alarm = clock + sleep'.seconds_to_sleep
          /\ sleep'.seconds_to_sleep > MIN_SLEEP_SECONDS
      ]_vars

\* C26 witness: at monotonic time 40, at 22:00 with MQTT connected, the
\* device went to sleep for nine hours after turning the pixels off and
\* disconnecting.
C26_Witness ==
    /\ sleep.deep_sleep /\ clock = 40 /\ sleep.now = TimeOfDay(22, 0, 0)
    /\ window = ConfigWindows
    /\ probe = [ op |-> "sleep",
                 steps |-> <<"pixels off", "mqtt disconnect", "time alarm", "deep sleep">>,
                 alarm |-> 32440 ]
    /\ dm.pixels[MORNING_PIXEL] = "OFF"

\* C27 - order of the event sources within a tick: the periodic poll is
\* handled before MQTT, so once an MQTT trigger has fired in a tick no poll
\* follows it in that tick and the snapshot of the MQTT trigger stays.
C27_PollBeforeMqtt ==
    [][ (run.pc = "poll" /\ event.kind = "mqtt") =>
          (event'.kind # "poll" /\ store' = store) ]_vars

\* C28 - one action per press: a press that holds a button low is handled at
\* most once, because the button is up again when check_buttons goes on after
\* handling it; and a press is handled only when more than DEBOUNCE_DELAY
\* (0.2 s) has passed since the last handled press of the same button.
C28_OneActionPerPress ==
    [][ btn'.press.handled =>
          /\ btn'.press.index = btn.next
          /\ btn'.press.level \in {"new", "held"}
          /\ btn'.press.level = "held" => ~btn.held_handled[btn.next]
          /\ ~btn'.down[btn.next]
          /\ (clock - btn.last_press_time[btn.next]) * 10 > 2
          /\ btn'.last_press_time[btn.next] = clock
      ]_vars

\* C28 witness: a press of the first button was not handled while the
\* debounce time had not passed, was still held at the next call one second
\* later and was handled then, once.
C28_Witness ==
    /\ btn.press.handled /\ btn.press.level = "held" /\ btn.press.index = 0
    /\ btn.last_press_time[0] = 1 /\ clock = 1
    /\ ~btn.down[0] /\ ~btn.held_handled[0]

\* What update_status returns for a call with record rec: "return True" in
\* the two branches that call refresh_display, "return False" in the third;
\* a call that raised returns nothing.
Returned(rec) == rec.requested /\ ~rec.raised

\* C29 - update_status returns True if and only if the display was actually
\* refreshed by that call (the hardware refresh was performed).
C29_ReturnsTrueIffRefreshed ==
    (impl = "display_manager" /\ last.op = "reconcile" /\ ~last.raised) =>
        (Returned(last) <=> last.performed)

\* C30 - time sync: the sync is attempted in the tick in which more than
\* TIME_SYNC_INTERVAL (3600 s) has passed since last_sync; a failed sync
\* raises nothing, leaves last_sync unchanged and lets the tick go on to its
\* MQTT handling and poll; a successful one sets last_sync to now.
C30_TimeSyncIsNonFatal ==
    [][ run.pc = "sync" =>
          /\ run'.pc = "mqtt"
          /\ run'.iterations = run.iterations /\ clock' = clock
          /\ (event'.kind = "sync") <=> (clock - run.last_sync > 3600)
          /\ (event'.kind = "sync" /\ event'.got) => run'.last_sync = clock
          /\ ~(event'.kind = "sync" /\ event'.got) => run'.last_sync = run.last_sync
      ]_vars

\* C30 witness: a sync attempted 3603 s after the start failed; last_sync is
\* still 0 and the tick is at its MQTT step.
C30_Witness ==
    /\ event.kind = "sync" /\ ~event.got
    /\ run.pc = "mqtt" /\ run.last_sync = 0 /\ clock = 3603

\* The kind of label the claim gives a slot with the given status: "Fed" for
\* the boolean true, "Fed at <time>" for a timestamp, "Not fed" for a falsy one.
LabelKindFor(status) ==
    IF status.fmt = "true" THEN "Fed"
    ELSE IF status.fmt = "false" THEN "Not fed" ELSE "Fed at"

\* C31 - fed with unknown time: after a reconcile, in either implementation, a
\* slot whose status is the boolean true is labelled exactly "Fed" with no
\* time, a slot whose status is a timestamp "Fed at <time>", and a slot whose
\* status is falsy "Not fed".
C31_FedWithUnknownTime ==
    last.op = "reconcile" =>
        /\ dm.morning_label.kind = LabelKindFor(store.morning)
        /\ dm.evening_label.kind = LabelKindFor(store.evening)
        /\ store.morning.fmt = "true" => dm.morning_label = Label("Fed", NoText)
        /\ store.morning.fmt \in {"iso", "local"} => dm.morning_label.time # NoText

\* C32 - initial state: after startup and display setup and before any
\* reconcile, also after a wake from deep sleep, both slots are shown as not
\* fed (sprite tile 0, label "Not fed", morning and evening pixels red),
\* first_update is True and last_refresh is 0.
C32_StartsFromDefaults ==
    (last.op = "none" /\ ~sleep.deep_sleep) =>
        /\ dm.morning_sprite = 0 /\ dm.evening_sprite = 0
        /\ dm.morning_label.kind = "Not fed" /\ dm.evening_label.kind = "Not fed"
        /\ dm.pixels[MORNING_PIXEL] = "RED" /\ dm.pixels[EVENING_PIXEL] = "RED"
        /\ dm.first_update /\ dm.last_refresh = 0
        /\ store = Snapshot(NotFed, NotFed)

\* C32 witness: the device woke from a deep sleep it entered with the morning
\* slot shown as fed (the panel still holds that image) and is back at the
\* defaults.
C32_Witness ==
    /\ last.op = "none" /\ ~sleep.deep_sleep /\ ~sleep.called
    /\ panel.content.morning_sprite = 1
    /\ dm.morning_sprite = 0 /\ dm.first_update /\ dm.last_refresh = 0
    /\ dm.pixels[MORNING_PIXEL] = "RED"


C34_FirstUpdateLifecycle ==
    [][ /\ ~(event'.fetched /\ event'.got) /\ run'.pc # "off"
            => dm'.first_update = dm.first_update
        /\ event'.fetched /\ event'.got /\ ~last'.raised
            => ~dm'.first_update /\ last'.answer \in {"ok", "too soon", "none"}
        /\ event'.fetched /\ event'.got /\ last'.raised
            => dm'.first_update = dm.first_update
        /\ ~dm.first_update /\ dm'.first_update
            => run.pc = "health" /\ run'.pc = "off" ]_vars

\* C34 witness: the fetch at startup failed, first_update stayed True, and
\* the first reconcile, made by a later poll, was rejected "too soon" by the
\* hardware and cleared first_update.
C34_Witness ==
    /\ event.kind = "poll" /\ event.got
    /\ last.op = "reconcile" /\ last.first /\ last.answer = "too soon"
    /\ ~last.performed /\ ~last.raised
    /\ run.refreshes = 1
    /\ ~dm.first_update


\* C35 - wake lands in an active window: whenever check_time_window has
\* decided to sleep, now + seconds_to_sleep is HH:00:00 of a window start and
\* no window start comes earlier, the duration is positive and less than 24
\* hours, and the scheduler evaluated at the wake time stays active; after
\* the wake the scheduler, consulted at that time, has not slept again.
C35_WakeLandsInWindow ==
    /\ sleep.deep_sleep =>
         LET wake == (sleep.now + sleep.seconds_to_sleep) % SecondsPerDay
             starts == { TimeOfDay(window.MORNING_START, 0, 0),
                         TimeOfDay(window.EVENING_START, 0, 0) }
         IN  /\ wake \in starts
             /\ \A st \in starts :
                  (st - sleep.now) % SecondsPerDay >= sleep.seconds_to_sleep
             /\ 0 < sleep.seconds_to_sleep
             /\ sleep.seconds_to_sleep < SecondsPerDay
             /\ ~check_time_window(window, wake).deep_sleep
             /\ check_time_window(window, wake).seconds_to_sleep = 0
    /\ run.wake_alarm /\ sleep.called =>
         /\ ~sleep.deep_sleep
         /\ sleep.seconds_to_sleep = 0
         /\ rtc \in { TimeOfDay(window.MORNING_START, 0, 0),
                      TimeOfDay(window.EVENING_START, 0, 0) }

\* C35 witness: the device slept after the evening window, woke at the
\* morning start of the next day, consulted the scheduler and stayed active.
C35_Witness ==
    /\ run.wake_alarm /\ sleep.called /\ ~sleep.deep_sleep
    /\ rtc = TimeOfDay(window.MORNING_START, 0, 0)
    /\ sleep.now = rtc


\* C36 - failed observation frame condition: a fetch that yields no
\* observation (at startup, on an MQTT trigger or in a periodic poll) leaves
\* sprites, labels, pixels, first_update and last_refresh unchanged; after a
\* periodic poll last_status_fetch is nevertheless set to the current time
\* and the loop goes on, and a poll is only made when more than
\* STATUS_FETCH_INTERVAL has passed since last_status_fetch.
C36_FailedFetchFrame ==
    [][ /\ run.pc \in {"off", "mqtt", "poll"} /\ event'.fetched /\ ~event'.got
            => /\ dm' = dm
               /\ panel' = panel
               /\ store' = store
        /\ run.pc = "poll" /\ event'.fetched /\ ~event'.got
            => /\ event'.kind = "poll"
               /\ run'.last_status_fetch = clock
               /\ run'.pc = "health"
               /\ ~PollDue(clock', run'.last_status_fetch)
        /\ run.pc \in {"off", "mqtt"} /\ event'.fetched /\ ~event'.got
            => run'.last_status_fetch = run.last_status_fetch
        /\ run.pc = "poll" /\ event'.fetched
            => clock - run.last_status_fetch > STATUS_FETCH_INTERVAL ]_vars

\* C36 witness: a periodic poll brought no observation while the display
\* showed the morning as fed; the display still does, and last_status_fetch
\* is the time of the poll.
C36_Witness ==
    /\ event.kind = "poll" /\ event.fetched /\ ~event.got
    /\ run.pc = "health" /\ run.last_status_fetch = clock
    /\ dm.morning_sprite = 1 /\ dm.pixels[MORNING_PIXEL] = "GREEN"
    /\ ~dm.first_update


\* C37 - MQTT connection state machine: in the MQTT step of a tick, if
\* mqtt_connected the client loop is run and no reconnect is made, otherwise
\* one reconnect attempt is made and the loop is not run (no message is
\* handled); a loop that raises, also when the exception comes from the
\* feeding-trigger handler's reconcile, leaves mqtt_connected False; a
\* successful connect leaves it True, a failed one False; no other step of a
\* run changes mqtt_connected, so the next tick after a loop error attempts a
\* reconnect.
C37_MqttConnectionStateMachine ==
    [][ /\ run.pc = "mqtt" =>
             /\ run'.pc = "poll"
             /\ run.mqtt_connected => event'.kind \in {"loop ok", "loop error", "mqtt"}
             /\ ~run.mqtt_connected =>
                  /\ event'.kind \in {"reconnect ok", "reconnect failed"}
                  /\ dm' = dm /\ store' = store /\ last' = last
             /\ event'.kind = "loop error" => ~run'.mqtt_connected
             /\ event'.kind = "loop ok" => run'.mqtt_connected
             /\ event'.kind = "mqtt" =>
                  run'.mqtt_connected = ~(event'.got /\ last'.raised)
             /\ event'.kind = "reconnect ok" => run'.mqtt_connected
             /\ event'.kind = "reconnect failed" => ~run'.mqtt_connected
        /\ run.pc \notin {"mqtt", "off"} /\ run'.pc # "off" =>
             run'.mqtt_connected = run.mqtt_connected ]_vars

\* C37 witness: the reconcile made by the feeding-trigger handler raised a
\* display error inside the client loop and mqtt_connected is False.
C37_Witness ==
    /\ run.pc = "poll"
    /\ event.kind = "mqtt" /\ event.got
    /\ last.op = "reconcile" /\ last.raised /\ last.answer = "error"
    /\ ~run.mqtt_connected

============================================================================
